---- MODULE Spec2Model ----
(***************************************************************************)
(* Differential OpenGL pipeline-state application (gl_state.cpp).          *)
(*                                                                         *)
(* OpenGLState is a plain value holding the whole pipeline configuration.  *)
(* cur_state is the process-wide applied singleton; `state` is a desired   *)
(* instance a caller fills in and applies.  Apply() walks the categories   *)
(* in a fixed order, compares desired against applied, issues the driver   *)
(* calls for what differs and stores the desired values in the singleton.  *)
(*                                                                         *)
(* Array sizes (render targets, viewports, units) and the value ranges of  *)
(* handles and enumerants are scaled down; GL enumerants, handles and the  *)
(* floating depth-range values are abstract codes 0..MaxValue that are     *)
(* only compared for equality, as the code does.                           *)
(***************************************************************************)
EXTENDS Integers, Sequences, FiniteSets, TLC

\* ----------------------------------------------------------------- bounds
NumRenderTargets == 2
NumViewports == 1
NumClipDistances == 1
NumTextures == 2
NumSamplers == 1
NumImages == 3
MaxValue == 1
MaxEdits == 2
MaxApplies == 2
MaxCoord == 1

\* GLint is a 32-bit two's complement integer.
GLintMax == 2147483647
GLintMin == (0 - GLintMax) - 1

Targets == 0 .. (NumRenderTargets - 1)
ViewportSlots == 0 .. (NumViewports - 1)
ClipPlanes == 0 .. (NumClipDistances - 1)
TextureUnits == 0 .. (NumTextures - 1)
SamplerUnits == 0 .. (NumSamplers - 1)
ImageUnits == 0 .. (NumImages - 1)
Values == 0 .. MaxValue
Coords == (0 - MaxCoord) .. MaxCoord

\* ------------------------------------------------------------ data model
\* One blend record (OpenGLState::Blend), default constructed.
DefaultBlend ==
    [enabled |-> FALSE, rgb_equation |-> 0, a_equation |-> 0,
     src_rgb_func |-> 0, dst_rgb_func |-> 0, src_a_func |-> 0, dst_a_func |-> 0]

\* One stencil face record.
DefaultStencilFace ==
    [test_func |-> 0, test_ref |-> 0, test_mask |-> 0, write_mask |-> 0,
     action_stencil_fail |-> 0, action_depth_fail |-> 0, action_depth_pass |-> 0]

\* One viewport slot with its embedded scissor (SetDefaultViewports).
DefaultViewport ==
    [x |-> 0, y |-> 0, width |-> 0, height |-> 0,
     depth_range_near |-> 0, depth_range_far |-> 0,
     scissor |-> [enabled |-> FALSE, x |-> 0, y |-> 0, width |-> 0, height |-> 0]]

\* A default constructed OpenGLState.
DefaultState ==
    [draw |-> [read_framebuffer |-> 0, draw_framebuffer |-> 0,
               shader_program |-> 0, program_pipeline |-> 0],
     clip_distance |-> [i \in ClipPlanes |-> FALSE],
     fragment_color_clamp |-> [enabled |-> FALSE],
     multisample_control |-> [alpha_to_coverage |-> FALSE, alpha_to_one |-> FALSE],
     rasterizer_discard |-> FALSE,
     color_mask |-> [t \in Targets |->
                       [red_enabled |-> TRUE, green_enabled |-> TRUE,
                        blue_enabled |-> TRUE, alpha_enabled |-> TRUE]],
     viewports |-> [i \in ViewportSlots |-> DefaultViewport],
     stencil |-> [test_enabled |-> FALSE,
                  front |-> DefaultStencilFace, back |-> DefaultStencilFace],
     independant_blend |-> [enabled |-> FALSE],
     blend |-> [t \in Targets |-> DefaultBlend],
     clip_control |-> [origin |-> 0, depth_mode |-> 0],
     renderbuffer |-> 0,
     textures |-> [i \in TextureUnits |-> 0],
     samplers |-> [i \in SamplerUnits |-> 0],
     images |-> [i \in ImageUnits |-> 0]]

\* ------------------------------------------------- addressing the fields
\* A field of OpenGLState is addressed by a path: how it is reached (k),
\* the member (g), the array index (i), the nested struct (sub) and the
\* leaf member (f).
Path(k, g, i, sub, f) == [k |-> k, g |-> g, i |-> i, sub |-> sub, f |-> f]

BlendFields ==
    {"enabled", "rgb_equation", "a_equation", "src_rgb_func", "dst_rgb_func",
     "src_a_func", "dst_a_func"}
StencilFaceFields ==
    {"test_func", "test_ref", "test_mask", "write_mask", "action_stencil_fail",
     "action_depth_fail", "action_depth_pass"}
ColorMaskFields == {"red_enabled", "green_enabled", "blue_enabled", "alpha_enabled"}
ViewportRectFields == {"x", "y", "width", "height"}
ViewportFields == ViewportRectFields \cup {"depth_range_near", "depth_range_far"}
ScissorFields == {"enabled"} \cup ViewportRectFields

\* Every field of the data model.
Fields ==
    {Path("member", "draw", 0, "", f) :
        f \in {"read_framebuffer", "draw_framebuffer", "shader_program", "program_pipeline"}}
    \cup {Path("elem", "clip_distance", i, "", "") : i \in ClipPlanes}
    \cup {Path("member", "fragment_color_clamp", 0, "", "enabled")}
    \cup {Path("member", "multisample_control", 0, "", f) :
            f \in {"alpha_to_coverage", "alpha_to_one"}}
    \cup {Path("top", "rasterizer_discard", 0, "", "")}
    \cup {Path("elem_member", "color_mask", t, "", f) : t \in Targets, f \in ColorMaskFields}
    \cup {Path("elem_member", "viewports", i, "", f) : i \in ViewportSlots, f \in ViewportFields}
    \cup {Path("elem_sub", "viewports", i, "scissor", f) : i \in ViewportSlots, f \in ScissorFields}
    \cup {Path("member", "stencil", 0, "", "test_enabled")}
    \cup {Path("member_sub", "stencil", 0, face, f) :
            face \in {"front", "back"}, f \in StencilFaceFields}
    \cup {Path("member", "independant_blend", 0, "", "enabled")}
    \cup {Path("elem_member", "blend", t, "", f) : t \in Targets, f \in BlendFields}
    \cup {Path("member", "clip_control", 0, "", f) : f \in {"origin", "depth_mode"}}
    \cup {Path("top", "renderbuffer", 0, "", "")}
    \cup {Path("elem", "textures", i, "", "") : i \in TextureUnits}
    \cup {Path("elem", "samplers", i, "", "") : i \in SamplerUnits}
    \cup {Path("elem", "images", i, "", "") : i \in ImageUnits}

\* The value of field p in state s.
Get(s, p) ==
    CASE p.k = "top" -> s[p.g]
      [] p.k = "member" -> s[p.g][p.f]
      [] p.k = "elem" -> s[p.g][p.i]
      [] p.k = "elem_member" -> s[p.g][p.i][p.f]
      [] p.k = "member_sub" -> s[p.g][p.sub][p.f]
      [] p.k = "elem_sub" -> s[p.g][p.i][p.sub][p.f]

\* State s with field p assigned v.
Set(s, p, v) ==
    CASE p.k = "top" -> [s EXCEPT ![p.g] = v]
      [] p.k = "member" -> [s EXCEPT ![p.g][p.f] = v]
      [] p.k = "elem" -> [s EXCEPT ![p.g][p.i] = v]
      [] p.k = "elem_member" -> [s EXCEPT ![p.g][p.i][p.f] = v]
      [] p.k = "member_sub" -> [s EXCEPT ![p.g][p.sub][p.f] = v]
      [] p.k = "elem_sub" -> [s EXCEPT ![p.g][p.i][p.sub][p.f] = v]

\* Whether field p is a bool member.
IsBoolField(p) ==
    \/ p.g \in {"clip_distance", "rasterizer_discard", "color_mask"}
    \/ p.f \in {"enabled", "test_enabled", "alpha_to_coverage", "alpha_to_one"}

\* The values field p can be given.
Dom(p) == IF IsBoolField(p) THEN BOOLEAN ELSE Values

\* The Apply() category that owns field p.
Category(p) ==
    CASE p.g = "draw" /\ p.f \in {"read_framebuffer", "draw_framebuffer"} -> "framebuffer"
      [] p.g = "draw" /\ p.f = "shader_program" -> "program"
      [] p.g = "draw" /\ p.f = "program_pipeline" -> "pipeline"
      [] p.g = "clip_distance" -> "clip_distances"
      [] p.g = "fragment_color_clamp" -> "color_clamp"
      [] p.g = "multisample_control" -> "multisample"
      [] p.g = "rasterizer_discard" -> "rasterizer_discard"
      [] p.g = "color_mask" -> "color_mask"
      [] p.g = "viewports" -> "viewport"
      [] p.g = "stencil" -> "stencil"
      [] p.g \in {"independant_blend", "blend"} -> "blending"
      [] p.g = "textures" -> "textures"
      [] p.g = "samplers" -> "samplers"
      [] p.g = "images" -> "images"
      [] p.g = "clip_control" -> "clip_control"
      [] p.g = "renderbuffer" -> "renderbuffer"

\* The fields in which two states differ.
DiffFields(a, b) == {p \in Fields : Get(a, p) # Get(b, p)}

\* ------------------------------------------------------------ driver calls
\* One call into the driver: the Apply() category that issued it, the GL
\* entry point, the capability or binding point it names, the index of an
\* indexed call (-1 when the call is not indexed) and its value arguments.
Call(cat, name, cap, index, args) ==
    [cat |-> cat, name |-> name, cap |-> cap, index |-> index, args |-> args]

\* The result of one Apply step: the singleton afterwards and the calls issued.
Result(st, issued) == [st |-> st, calls |-> issued]

\* The concatenation f[0] \o ... \o f[n-1]: the calls of a loop, in loop order.
RECURSIVE Flatten(_, _)
Flatten(f, n) == IF n = 0 THEN <<>> ELSE Flatten(f, n - 1) \o f[n - 1]

\* ------------------------------------------------------- the GL context
\* What the driver holds of the state the calls above set: the bindings,
\* the per-target blend state, and the bindings and objects the device
\* probes touch.  objects are the live object names by kind; a program
\* deleted while current stays alive, flagged, until it stops being current.
DefaultDriver ==
    [read_framebuffer |-> 0, draw_framebuffer |-> 0, program |-> 0, pipeline |-> 0,
     renderbuffer |-> 0,
     textures |-> [i \in TextureUnits |-> 0],
     samplers |-> [i \in SamplerUnits |-> 0],
     images |-> [i \in ImageUnits |-> 0],
     blend |-> [t \in Targets |-> DefaultBlend],
     vertex_array |-> 0, uniform_buffer |-> 0, shader_storage_buffer |-> 0,
     objects |-> {}, flagged |-> {}]

\* The context after call c of Apply(): a non-indexed blend call sets every
\* render target, an indexed one sets its target; calls on state the
\* context record does not hold leave it as it is.
DriverCall(d, c) ==
    CASE c.name = "glBindFramebuffer" ->
           IF c.cap = "GL_READ_FRAMEBUFFER"
           THEN [d EXCEPT !.read_framebuffer = c.args[1]]
           ELSE [d EXCEPT !.draw_framebuffer = c.args[1]]
      [] c.name = "glUseProgram" -> [d EXCEPT !.program = c.args[1]]
      [] c.name = "glBindProgramPipeline" -> [d EXCEPT !.pipeline = c.args[1]]
      [] c.name = "glBindRenderbuffer" -> [d EXCEPT !.renderbuffer = c.args[1]]
      [] c.name = "glBindTextureUnit" -> [d EXCEPT !.textures[c.index] = c.args[1]]
      [] c.name = "glBindSampler" -> [d EXCEPT !.samplers[c.index] = c.args[1]]
      [] c.name = "glBindImageTextures" ->
           [d EXCEPT !.images =
              [i \in ImageUnits |->
                 IF c.index <= i /\ i < c.index + Len(c.args)
                 THEN c.args[(i - c.index) + 1] ELSE d.images[i]]]
      [] c.name \in {"glEnable", "glDisable"} /\ c.cap = "GL_BLEND" ->
           [d EXCEPT !.blend =
              [t \in Targets |-> [d.blend[t] EXCEPT !.enabled = (c.name = "glEnable")]]]
      [] c.name \in {"glEnablei", "glDisablei"} /\ c.cap = "GL_BLEND" ->
           [d EXCEPT !.blend[c.index].enabled = (c.name = "glEnablei")]
      [] c.name = "glBlendFuncSeparate" ->
           [d EXCEPT !.blend =
              [t \in Targets |->
                 [d.blend[t] EXCEPT !.src_rgb_func = c.args[1], !.dst_rgb_func = c.args[2],
                                    !.src_a_func = c.args[3], !.dst_a_func = c.args[4]]]]
      [] c.name = "glBlendFuncSeparatei" ->
           [d EXCEPT !.blend[c.index] =
              [d.blend[c.index] EXCEPT !.src_rgb_func = c.args[1], !.dst_rgb_func = c.args[2],
                                       !.src_a_func = c.args[3], !.dst_a_func = c.args[4]]]
      [] c.name = "glBlendEquationSeparate" ->
           [d EXCEPT !.blend =
              [t \in Targets |->
                 [d.blend[t] EXCEPT !.rgb_equation = c.args[1], !.a_equation = c.args[2]]]]
      [] c.name = "glBlendEquationSeparatei" ->
           [d EXCEPT !.blend[c.index] =
              [d.blend[c.index] EXCEPT !.rgb_equation = c.args[1], !.a_equation = c.args[2]]]
      [] OTHER -> d

\* The context after the first n calls of cs, in order.
RECURSIVE DriverAfter(_, _, _)
DriverAfter(d, cs, n) ==
    IF n = 0 THEN d ELSE DriverCall(DriverAfter(d, cs, n - 1), cs[n])

\* ---------------------------------------------------------------- helpers
UpdateValue_NoStore(current_value, new_value) ==
    [changed |-> current_value # new_value, value |-> current_value]

\* UpdateValue: stores new_value into current_value, returns whether it changed.
UpdateValue(current_value, new_value) ==
    [changed |-> current_value # new_value, value |-> new_value]

\* UpdateTie: the same on a tuple of references.
UpdateTie(current_value, new_value) ==
    [changed |-> current_value # new_value, value |-> new_value]

\* The scan of UpdateArray from index i on: every element is stored, first
\* is the first changed index (-1 while there is none), last the last one.
RECURSIVE UpdateArrayScan(_, _, _, _, _, _)
UpdateArrayScan(current_values, new_values, size, i, first, last) ==
    IF i >= size
    THEN [values |-> current_values, first |-> first, last |-> last]
    ELSE LET u == UpdateValue(current_values[i], new_values[i])
             stored == [current_values EXCEPT ![i] = u.value]
         IN IF ~u.changed
            THEN UpdateArrayScan(stored, new_values, size, i + 1, first, last)
            ELSE UpdateArrayScan(stored, new_values, size, i + 1,
                                 IF first = -1 THEN i ELSE first, i)

UpdateArray_ShortCount(current_values, new_values, size) ==
    LET r == UpdateArrayScan(current_values, new_values, size, 0, -1, -1)
    IN [values |-> r.values, has |-> r.first # -1,
        first |-> r.first, count |-> r.last - r.first]

\* UpdateArray: the stored array and, when something changed, the pair
\* (first changed index, last - first + 1).
UpdateArray(current_values, new_values, size) ==
    LET r == UpdateArrayScan(current_values, new_values, size, 0, -1, -1)
    IN [values |-> r.values, has |-> r.first # -1,
        first |-> r.first, count |-> (r.last - r.first) + 1]

\* Enable(cap, enable) and Enable(cap, index, enable): glEnable/glDisable
\* and glEnablei/glDisablei.
EnableCall(cat, cap, index, enable) ==
    IF index = -1
    THEN Call(cat, IF enable THEN "glEnable" ELSE "glDisable", cap, -1, <<>>)
    ELSE Call(cat, IF enable THEN "glEnablei" ELSE "glDisablei", cap, index, <<>>)

\* Enable(cap, [index,] current_value, new_value): call only on change.
Enable(cat, cap, index, current_value, new_value) ==
    LET u == UpdateValue(current_value, new_value)
    IN [value |-> u.value,
        calls |-> IF u.changed THEN <<EnableCall(cat, cap, index, new_value)>> ELSE <<>>]

\* ------------------------------------------------------ the Apply* steps
\* Each takes the singleton (cur) and the desired state (s).
ApplyFramebufferState(cur, s) ==
    LET r == UpdateValue(cur.draw.read_framebuffer, s.draw.read_framebuffer)
        d == UpdateValue(cur.draw.draw_framebuffer, s.draw.draw_framebuffer)
    IN Result([cur EXCEPT !.draw.read_framebuffer = r.value,
                          !.draw.draw_framebuffer = d.value],
              (IF r.changed
               THEN <<Call("framebuffer", "glBindFramebuffer", "GL_READ_FRAMEBUFFER", -1,
                           <<s.draw.read_framebuffer>>)>>
               ELSE <<>>)
              \o (IF d.changed
                  THEN <<Call("framebuffer", "glBindFramebuffer", "GL_DRAW_FRAMEBUFFER", -1,
                              <<s.draw.draw_framebuffer>>)>>
                  ELSE <<>>))

ApplyShaderProgram(cur, s) ==
    LET u == UpdateValue(cur.draw.shader_program, s.draw.shader_program)
    IN Result([cur EXCEPT !.draw.shader_program = u.value],
              IF u.changed
              THEN <<Call("program", "glUseProgram", "", -1, <<s.draw.shader_program>>)>>
              ELSE <<>>)

ApplyProgramPipeline(cur, s) ==
    LET u == UpdateValue(cur.draw.program_pipeline, s.draw.program_pipeline)
    IN Result([cur EXCEPT !.draw.program_pipeline = u.value],
              IF u.changed
              THEN <<Call("pipeline", "glBindProgramPipeline", "", -1,
                          <<s.draw.program_pipeline>>)>>
              ELSE <<>>)

\* Plane i is the capability GL_CLIP_DISTANCE0 + i of the non-indexed
\* glEnable/glDisable; the offset i is carried as the call's argument.
ApplyClipDistances(cur, s) ==
    LET u == [i \in ClipPlanes |-> UpdateValue(cur.clip_distance[i], s.clip_distance[i])]
    IN Result([cur EXCEPT !.clip_distance = [i \in ClipPlanes |-> u[i].value]],
              Flatten([i \in ClipPlanes |->
                         IF u[i].changed
                         THEN <<Call("clip_distances",
                                     IF s.clip_distance[i] THEN "glEnable" ELSE "glDisable",
                                     "GL_CLIP_DISTANCE0", -1, <<i>>)>>
                         ELSE <<>>],
                      NumClipDistances))

ApplyFragmentColorClamp(cur, s) ==
    LET u == UpdateValue(cur.fragment_color_clamp.enabled, s.fragment_color_clamp.enabled)
    IN Result([cur EXCEPT !.fragment_color_clamp.enabled = u.value],
              IF u.changed
              THEN <<Call("color_clamp", "glClampColor", "GL_CLAMP_FRAGMENT_COLOR_ARB", -1,
                          <<s.fragment_color_clamp.enabled>>)>>
              ELSE <<>>)

ApplyMultisample(cur, s) ==
    LET c == Enable("multisample", "GL_SAMPLE_ALPHA_TO_COVERAGE", -1,
                    cur.multisample_control.alpha_to_coverage,
                    s.multisample_control.alpha_to_coverage)
        o == Enable("multisample", "GL_SAMPLE_ALPHA_TO_ONE", -1,
                    cur.multisample_control.alpha_to_one,
                    s.multisample_control.alpha_to_one)
    IN Result([cur EXCEPT !.multisample_control.alpha_to_coverage = c.value,
                          !.multisample_control.alpha_to_one = o.value],
              c.calls \o o.calls)

ApplyRasterizerDiscard(cur, s) ==
    LET e == Enable("rasterizer_discard", "GL_RASTERIZER_DISCARD", -1,
                    cur.rasterizer_discard, s.rasterizer_discard)
    IN Result([cur EXCEPT !.rasterizer_discard = e.value], e.calls)

ApplyColorMask(cur, s) ==
    LET differs(i) ==
            \/ s.color_mask[i].red_enabled # cur.color_mask[i].red_enabled
            \/ s.color_mask[i].green_enabled # cur.color_mask[i].green_enabled
            \/ s.color_mask[i].blue_enabled # cur.color_mask[i].blue_enabled
            \/ s.color_mask[i].alpha_enabled # cur.color_mask[i].alpha_enabled
    IN Result([cur EXCEPT !.color_mask =
                   [i \in Targets |-> IF differs(i) THEN s.color_mask[i]
                                      ELSE cur.color_mask[i]]],
              Flatten([i \in Targets |->
                         IF differs(i)
                         THEN <<Call("color_mask", "glColorMaski", "", i,
                                     <<s.color_mask[i].red_enabled,
                                       s.color_mask[i].green_enabled,
                                       s.color_mask[i].blue_enabled,
                                       s.color_mask[i].alpha_enabled>>)>>
                         ELSE <<>>],
                      NumRenderTargets))

\* One iteration of ApplyViewport's loop: slot i's record and its calls.
ApplyViewportSlot(current, updated, i) ==
    LET rect == \/ current.x # updated.x \/ current.y # updated.y
                \/ current.width # updated.width \/ current.height # updated.height
        depth == \/ current.depth_range_near # updated.depth_range_near
                 \/ current.depth_range_far # updated.depth_range_far
        en == Enable("viewport", "GL_SCISSOR_TEST", i,
                     current.scissor.enabled, updated.scissor.enabled)
        sc == \/ current.scissor.x # updated.scissor.x
              \/ current.scissor.y # updated.scissor.y
              \/ current.scissor.width # updated.scissor.width
              \/ current.scissor.height # updated.scissor.height
    IN [value |->
          [x |-> IF rect THEN updated.x ELSE current.x,
           y |-> IF rect THEN updated.y ELSE current.y,
           width |-> IF rect THEN updated.width ELSE current.width,
           height |-> IF rect THEN updated.height ELSE current.height,
           depth_range_near |-> IF depth THEN updated.depth_range_near
                                ELSE current.depth_range_near,
           depth_range_far |-> IF depth THEN updated.depth_range_far
                               ELSE current.depth_range_far,
           scissor |->
             [enabled |-> en.value,
              x |-> IF sc THEN updated.scissor.x ELSE current.scissor.x,
              y |-> IF sc THEN updated.scissor.y ELSE current.scissor.y,
              width |-> IF sc THEN updated.scissor.width ELSE current.scissor.width,
              height |-> IF sc THEN updated.scissor.height ELSE current.scissor.height]],
        calls |->
          (IF rect
           THEN <<Call("viewport", "glViewportIndexedf", "", i,
                       <<updated.x, updated.y, updated.width, updated.height>>)>>
           ELSE <<>>)
          \o (IF depth
              THEN <<Call("viewport", "glDepthRangeIndexed", "", i,
                          <<updated.depth_range_near, updated.depth_range_far>>)>>
              ELSE <<>>)
          \o en.calls
          \o (IF sc
              THEN <<Call("viewport", "glScissorIndexed", "", i,
                          <<updated.scissor.x, updated.scissor.y,
                            updated.scissor.width, updated.scissor.height>>)>>
              ELSE <<>>)]

ApplyViewport(cur, s) ==
    LET r == [i \in ViewportSlots |-> ApplyViewportSlot(cur.viewports[i], s.viewports[i], i)]
    IN Result([cur EXCEPT !.viewports = [i \in ViewportSlots |-> r[i].value]],
              Flatten([i \in ViewportSlots |-> r[i].calls], NumViewports))

\* The ConfigStencil lambda of ApplyStencilTest, for one face.
ConfigStencil(face, config, current) ==
    LET func == \/ current.test_func # config.test_func
                \/ current.test_ref # config.test_ref
                \/ current.test_mask # config.test_mask
        op == \/ current.action_depth_fail # config.action_depth_fail
              \/ current.action_depth_pass # config.action_depth_pass
              \/ current.action_stencil_fail # config.action_stencil_fail
        mask == current.write_mask # config.write_mask
    IN [value |->
          [test_func |-> IF func THEN config.test_func ELSE current.test_func,
           test_ref |-> IF func THEN config.test_ref ELSE current.test_ref,
           test_mask |-> IF func THEN config.test_mask ELSE current.test_mask,
           action_depth_fail |-> IF op THEN config.action_depth_fail
                                 ELSE current.action_depth_fail,
           action_depth_pass |-> IF op THEN config.action_depth_pass
                                 ELSE current.action_depth_pass,
           action_stencil_fail |-> IF op THEN config.action_stencil_fail
                                   ELSE current.action_stencil_fail,
           write_mask |-> IF mask THEN config.write_mask ELSE current.write_mask],
        calls |->
          (IF func
           THEN <<Call("stencil", "glStencilFuncSeparate", face, -1,
                       <<config.test_func, config.test_ref, config.test_mask>>)>>
           ELSE <<>>)
          \o (IF op
              THEN <<Call("stencil", "glStencilOpSeparate", face, -1,
                          <<config.action_stencil_fail, config.action_depth_fail,
                            config.action_depth_pass>>)>>
              ELSE <<>>)
          \o (IF mask
              THEN <<Call("stencil", "glStencilMaskSeparate", face, -1,
                          <<config.write_mask>>)>>
              ELSE <<>>)]

ApplyStencilTest(cur, s) ==
    LET en == Enable("stencil", "GL_STENCIL_TEST", -1,
                     cur.stencil.test_enabled, s.stencil.test_enabled)
        front == ConfigStencil("GL_FRONT", s.stencil.front, cur.stencil.front)
        back == ConfigStencil("GL_BACK", s.stencil.back, cur.stencil.back)
    IN Result([cur EXCEPT !.stencil = [test_enabled |-> en.value,
                                       front |-> front.value, back |-> back.value]],
              en.calls \o front.calls \o back.calls)

\* The tuples ApplyTargetBlending ties together.
BlendFuncs(b) == <<b.src_rgb_func, b.dst_rgb_func, b.src_a_func, b.dst_a_func>>
BlendEquations(b) == <<b.rgb_equation, b.a_equation>>

ApplyGlobalBlending_Indexed(cur, s) ==
    LET updated == s.blend[0]
        current == cur.blend[0]
        en == Enable("blending", "GL_BLEND", 0, current.enabled, updated.enabled)
        func == BlendFuncs(current) # BlendFuncs(updated)
        eq == BlendEquations(current) # BlendEquations(updated)
    IN Result([cur EXCEPT !.blend[0] =
                 [enabled |-> en.value,
                  src_rgb_func |-> updated.src_rgb_func, dst_rgb_func |-> updated.dst_rgb_func,
                  src_a_func |-> updated.src_a_func, dst_a_func |-> updated.dst_a_func,
                  rgb_equation |-> updated.rgb_equation, a_equation |-> updated.a_equation]],
              en.calls
              \o (IF func
                  THEN <<Call("blending", "glBlendFuncSeparatei", "", 0, BlendFuncs(updated))>>
                  ELSE <<>>)
              \o (IF eq
                  THEN <<Call("blending", "glBlendEquationSeparatei", "", 0,
                              BlendEquations(updated))>>
                  ELSE <<>>))

ApplyGlobalBlending(cur, s) ==
    LET updated == s.blend[0]
        current == cur.blend[0]
        en == Enable("blending", "GL_BLEND", -1, current.enabled, updated.enabled)
        func == \/ current.src_rgb_func # updated.src_rgb_func
                \/ current.dst_rgb_func # updated.dst_rgb_func
                \/ current.src_a_func # updated.src_a_func
                \/ current.dst_a_func # updated.dst_a_func
        eq == \/ current.rgb_equation # updated.rgb_equation
              \/ current.a_equation # updated.a_equation
    IN Result([cur EXCEPT !.blend[0] =
                 [enabled |-> en.value,
                  src_rgb_func |-> IF func THEN updated.src_rgb_func ELSE current.src_rgb_func,
                  dst_rgb_func |-> IF func THEN updated.dst_rgb_func ELSE current.dst_rgb_func,
                  src_a_func |-> IF func THEN updated.src_a_func ELSE current.src_a_func,
                  dst_a_func |-> IF func THEN updated.dst_a_func ELSE current.dst_a_func,
                  rgb_equation |-> IF eq THEN updated.rgb_equation ELSE current.rgb_equation,
                  a_equation |-> IF eq THEN updated.a_equation ELSE current.a_equation]],
              en.calls
              \o (IF func
                  THEN <<Call("blending", "glBlendFuncSeparate", "", -1, BlendFuncs(updated))>>
                  ELSE <<>>)
              \o (IF eq
                  THEN <<Call("blending", "glBlendEquationSeparate", "", -1,
                              BlendEquations(updated))>>
                  ELSE <<>>))

\* ApplyTargetBlending for one target: the target's record in the
\* singleton afterwards and the calls.  force covers the enable only.
ApplyTargetBlending(current, updated, target, force) ==
    LET en == current.enabled # updated.enabled \/ force
        func == UpdateTie(BlendFuncs(current), BlendFuncs(updated))
        eq == UpdateTie(BlendEquations(current), BlendEquations(updated))
    IN [value |->
          [enabled |-> IF en THEN updated.enabled ELSE current.enabled,
           src_rgb_func |-> func.value[1], dst_rgb_func |-> func.value[2],
           src_a_func |-> func.value[3], dst_a_func |-> func.value[4],
           rgb_equation |-> eq.value[1], a_equation |-> eq.value[2]],
        calls |->
          (IF en THEN <<EnableCall("blending", "GL_BLEND", target, updated.enabled)>>
           ELSE <<>>)
          \o (IF func.changed
              THEN <<Call("blending", "glBlendFuncSeparatei", "", target, BlendFuncs(updated))>>
              ELSE <<>>)
          \o (IF eq.changed
              THEN <<Call("blending", "glBlendEquationSeparatei", "", target,
                          BlendEquations(updated))>>
              ELSE <<>>)]

ApplyBlending(cur, s) ==
    LET force == s.independant_blend.enabled # cur.independant_blend.enabled
        r == [target \in Targets |->
                ApplyTargetBlending(cur.blend[target], s.blend[target], target, force)]
        applied ==
            IF s.independant_blend.enabled
            THEN Result([cur EXCEPT !.blend = [target \in Targets |-> r[target].value]],
                        Flatten([target \in Targets |-> r[target].calls], NumRenderTargets))
            ELSE ApplyGlobalBlending(cur, s)
    IN Result([applied.st EXCEPT !.independant_blend.enabled = s.independant_blend.enabled],
              applied.calls)

ApplyClipControl(cur, s) ==
    LET u == UpdateTie(<<cur.clip_control.origin, cur.clip_control.depth_mode>>,
                       <<s.clip_control.origin, s.clip_control.depth_mode>>)
    IN Result([cur EXCEPT !.clip_control.origin = u.value[1],
                          !.clip_control.depth_mode = u.value[2]],
              IF u.changed
              THEN <<Call("clip_control", "glClipControl", "", -1,
                          <<s.clip_control.origin, s.clip_control.depth_mode>>)>>
              ELSE <<>>)

ApplyRenderBuffer_Always(cur, s) ==
    Result([cur EXCEPT !.renderbuffer = s.renderbuffer],
           <<Call("renderbuffer", "glBindRenderbuffer", "GL_RENDERBUFFER", -1,
                  <<s.renderbuffer>>)>>)

ApplyRenderBuffer(cur, s) ==
    IF cur.renderbuffer # s.renderbuffer
    THEN Result([cur EXCEPT !.renderbuffer = s.renderbuffer],
                <<Call("renderbuffer", "glBindRenderbuffer", "GL_RENDERBUFFER", -1,
                       <<s.renderbuffer>>)>>)
    ELSE Result(cur, <<>>)

ApplyTextures_BindNull(cur, s) ==
    LET u == [i \in TextureUnits |-> UpdateValue(cur.textures[i], s.textures[i])]
    IN Result([cur EXCEPT !.textures = [i \in TextureUnits |-> u[i].value]],
              Flatten([i \in TextureUnits |->
                         IF u[i].changed
                         THEN <<Call("textures", "glBindTextureUnit", "", i, <<s.textures[i]>>)>>
                         ELSE <<>>],
                      NumTextures))

ApplyTextures_NoStoreNull(cur, s) ==
    LET u == [i \in TextureUnits |-> UpdateValue(cur.textures[i], s.textures[i])]
    IN Result([cur EXCEPT !.textures =
                 [i \in TextureUnits |-> IF s.textures[i] # 0 THEN u[i].value
                                         ELSE cur.textures[i]]],
              Flatten([i \in TextureUnits |->
                         IF u[i].changed /\ s.textures[i] # 0
                         THEN <<Call("textures", "glBindTextureUnit", "", i, <<s.textures[i]>>)>>
                         ELSE <<>>],
                      NumTextures))

ApplyTextures(cur, s) ==
    LET u == [i \in TextureUnits |-> UpdateValue(cur.textures[i], s.textures[i])]
    IN Result([cur EXCEPT !.textures = [i \in TextureUnits |-> u[i].value]],
              Flatten([i \in TextureUnits |->
                         IF u[i].changed /\ s.textures[i] # 0
                         THEN <<Call("textures", "glBindTextureUnit", "", i, <<s.textures[i]>>)>>
                         ELSE <<>>],
                      NumTextures))

ApplySamplers_SkipNull(cur, s) ==
    LET u == [i \in SamplerUnits |-> UpdateValue(cur.samplers[i], s.samplers[i])]
    IN Result([cur EXCEPT !.samplers = [i \in SamplerUnits |-> u[i].value]],
              Flatten([i \in SamplerUnits |->
                         IF u[i].changed /\ s.samplers[i] # 0
                         THEN <<Call("samplers", "glBindSampler", "", i, <<s.samplers[i]>>)>>
                         ELSE <<>>],
                      NumSamplers))

ApplySamplers(cur, s) ==
    LET u == [i \in SamplerUnits |-> UpdateValue(cur.samplers[i], s.samplers[i])]
    IN Result([cur EXCEPT !.samplers = [i \in SamplerUnits |-> u[i].value]],
              Flatten([i \in SamplerUnits |->
                         IF u[i].changed
                         THEN <<Call("samplers", "glBindSampler", "", i, <<s.samplers[i]>>)>>
                         ELSE <<>>],
                      NumSamplers))

\* ApplyImages: one glBindImageTextures(first, count, images.data() + first).
ApplyImages(cur, s) ==
    LET update == UpdateArray(cur.images, s.images, NumImages)
    IN Result([cur EXCEPT !.images = update.values],
              IF update.has
              THEN <<Call("images", "glBindImageTextures", "", update.first,
                          [k \in 1 .. update.count |-> s.images[update.first + k - 1]])>>
              ELSE <<>>)

ApplyOrder_RenderBufferFirst ==
    <<"renderbuffer", "framebuffer", "program", "pipeline", "clip_distances", "color_clamp",
      "multisample", "rasterizer_discard", "color_mask", "viewport", "stencil",
      "blending", "textures", "samplers", "images", "clip_control">>

\* The Apply* steps in the order Apply() runs them.
ApplyOrder ==
    <<"framebuffer", "program", "pipeline", "clip_distances", "color_clamp",
      "multisample", "rasterizer_discard", "color_mask", "viewport", "stencil",
      "blending", "textures", "samplers", "images", "clip_control", "renderbuffer">>

ApplyStep(cat, cur, s) ==
    CASE cat = "framebuffer" -> ApplyFramebufferState(cur, s)
      [] cat = "program" -> ApplyShaderProgram(cur, s)
      [] cat = "pipeline" -> ApplyProgramPipeline(cur, s)
      [] cat = "clip_distances" -> ApplyClipDistances(cur, s)
      [] cat = "color_clamp" -> ApplyFragmentColorClamp(cur, s)
      [] cat = "multisample" -> ApplyMultisample(cur, s)
      [] cat = "rasterizer_discard" -> ApplyRasterizerDiscard(cur, s)
      [] cat = "color_mask" -> ApplyColorMask(cur, s)
      [] cat = "viewport" -> ApplyViewport(cur, s)
      [] cat = "stencil" -> ApplyStencilTest(cur, s)
      [] cat = "blending" -> ApplyBlending(cur, s)
      [] cat = "textures" -> ApplyTextures(cur, s)
      [] cat = "samplers" -> ApplySamplers(cur, s)
      [] cat = "images" -> ApplyImages(cur, s)
      [] cat = "clip_control" -> ApplyClipControl(cur, s)
      [] cat = "renderbuffer" -> ApplyRenderBuffer(cur, s)

\* Steps n+1 .. 16 of Apply(), run on the result so far.
RECURSIVE ApplyFrom(_, _, _)
ApplyFrom(n, sofar, s) ==
    IF n > Len(ApplyOrder)
    THEN sofar
    ELSE LET r == ApplyStep(ApplyOrder[n], sofar.st, s)
         IN ApplyFrom(n + 1, Result(r.st, sofar.calls \o r.calls), s)

\* OpenGLState::Apply() of desired state s on singleton cur.
ApplyOp(cur, s) == ApplyFrom(1, Result(cur, <<>>), s)

\* ------------------------------------------- viewport through the scissor
\* GLint arithmetic: a result outside the 32-bit range is undefined
\* behaviour, modelled as any GLint.
InGLint(n) == GLintMin <= n /\ n <= GLintMax
GLintResult(n) == IF InGLint(n) THEN {n} ELSE GLintMin .. GLintMax

Max(a, b) == IF a < b THEN b ELSE a

\* EmulateViewportWithScissor on viewport slot 0 (current): the records it
\* can leave behind.
EmulatedViewports(current) ==
    IF current.scissor.enabled
    THEN LET left == Max(current.x, current.scissor.x)
             bottom == Max(current.y, current.scissor.y)
             rights == {Max(a, b) :
                          a \in GLintResult(current.x + current.width),
                          b \in GLintResult(current.scissor.x + current.scissor.width)}
             tops == {Max(a, b) :
                        a \in GLintResult(current.y + current.height),
                        b \in GLintResult(current.scissor.y + current.scissor.height)}
             widths == UNION {GLintResult(right - left) : right \in rights}
             heights == UNION {GLintResult(top - bottom) : top \in tops}
         IN {[current EXCEPT !.scissor.x = Max(left, 0),
                             !.scissor.y = Max(bottom, 0),
                             !.scissor.width = Max(w, 0),
                             !.scissor.height = Max(h, 0)] :
               w \in widths, h \in heights}
    ELSE {[current EXCEPT !.scissor.enabled = TRUE,
                          !.scissor.x = current.x,
                          !.scissor.y = current.y,
                          !.scissor.width = current.width,
                          !.scissor.height = current.height]}

\* ------------------------------------------------- invalidation helpers
\* Each returns the instance it is called on with the handle scrubbed.
UnbindTextureOp(s, handle) ==
    [s EXCEPT !.textures =
        [i \in TextureUnits |-> IF s.textures[i] = handle THEN 0 ELSE s.textures[i]]]

ResetSamplerOp(s, handle) ==
    [s EXCEPT !.samplers =
        [i \in SamplerUnits |-> IF s.samplers[i] = handle THEN 0 ELSE s.samplers[i]]]

ResetProgramOp(s, handle) ==
    IF s.draw.shader_program = handle THEN [s EXCEPT !.draw.shader_program = 0] ELSE s

ResetPipelineOp(s, handle) ==
    IF s.draw.program_pipeline = handle THEN [s EXCEPT !.draw.program_pipeline = 0] ELSE s

ResetFramebufferOp_ReadOnly(s, handle) ==
    IF s.draw.read_framebuffer = handle THEN [s EXCEPT !.draw.read_framebuffer = 0] ELSE s

ResetFramebufferOp(s, handle) ==
    LET r == IF s.draw.read_framebuffer = handle
             THEN [s EXCEPT !.draw.read_framebuffer = 0] ELSE s
    IN IF r.draw.draw_framebuffer = handle
       THEN [r EXCEPT !.draw.draw_framebuffer = 0] ELSE r

ResetRenderbufferOp(s, handle) ==
    IF s.renderbuffer = handle THEN [s EXCEPT !.renderbuffer = 0] ELSE s

\* ------------------------------------------ device probing (gl_device.cpp)
\* A u32 is kept as two 16-bit limbs, so that its arithmetic wraps at 2^32
\* exactly as the code's does.
LimbModulus == 65536
Limbs(hi, lo) == [hi |-> hi, lo |-> lo]
U32(n) == Limbs(0, n)
U32Max == Limbs(LimbModulus - 1, LimbModulus - 1)

\* lhs + rhs and lhs - rhs in u32.
U32Plus(lhs, rhs) ==
    LET lo == lhs.lo + rhs.lo
    IN Limbs((lhs.hi + rhs.hi + (lo \div LimbModulus)) % LimbModulus, lo % LimbModulus)

U32Minus(lhs, rhs) ==
    LET borrow == IF lhs.lo < rhs.lo THEN 1 ELSE 0
    IN Limbs((((lhs.hi - rhs.hi) - borrow) + LimbModulus) % LimbModulus,
             ((lhs.lo - rhs.lo) + LimbModulus) % LimbModulus)

\* lhs <= rhs on u32.
U32LessEq(lhs, rhs) == lhs.hi < rhs.hi \/ (lhs.hi = rhs.hi /\ lhs.lo <= rhs.lo)

\* One uniform block is reserved for emulation purposes.
ReservedUniformBlocks == 1

\* The limits a driver is taken to report: small ones and the largest u32.
MaxLimit == 1
LimitValues == {U32(n) : n \in 0 .. MaxLimit} \cup {U32Max}

\* The chained BuildBaseBindings calls: 1 vertex, 2 tessellation control,
\* 3 tessellation evaluation, 4 geometry.
Stages == 1 .. 4

\* Device::BaseBindings.
BaseBindings(uniform_buffer, shader_storage_buffer, sampler, image) ==
    [uniform_buffer |-> uniform_buffer, shader_storage_buffer |-> shader_storage_buffer,
     sampler |-> sampler, image |-> image]

BindingCategories == {"uniform_buffer", "shader_storage_buffer", "sampler", "image"}

\* operator+ on BaseBindings: memberwise u32 addition.
BaseBindingsPlus(lhs, rhs) ==
    BaseBindings(U32Plus(lhs.uniform_buffer, rhs.uniform_buffer),
                 U32Plus(lhs.shader_storage_buffer, rhs.shader_storage_buffer),
                 U32Plus(lhs.sampler, rhs.sampler),
                 U32Plus(lhs.image, rhs.image))

BuildBaseBindings_NoReserve(reported) ==
    BaseBindings(reported.uniform_buffer, reported.shader_storage_buffer,
                 reported.sampler, reported.image)

\* BuildBaseBindings on the four limits GetInteger<u32> returns for a stage.
BuildBaseBindings(reported) ==
    BaseBindings(U32Minus(reported.uniform_buffer, U32(ReservedUniformBlocks)),
                 reported.shader_storage_buffer, reported.sampler, reported.image)

\* base_bindings[0 .. k] as the constructor chains them.
RECURSIVE ChainedBindings(_, _)
ChainedBindings(limits, k) ==
    IF k = 0
    THEN BaseBindings(U32(ReservedUniformBlocks), U32(0), U32(0), U32(0))
    ELSE BaseBindingsPlus(ChainedBindings(limits, k - 1), BuildBaseBindings(limits[k]))

\* base_bindings after lines 79-100: entry 5 (compute) is all zero.
ConstructedBindings(limits) ==
    [k \in 0 .. 5 |->
       IF k = 5 THEN BaseBindings(U32(0), U32(0), U32(0), U32(0))
       ELSE ChainedBindings(limits, k)]

\* Object names the driver hands out: unused ones above the names in use
\* before construction.
Names == (MaxValue + 1) .. (MaxValue + 3)
Object(kind, name) == [kind |-> kind, name |-> name]

\* glCreateShaderProgramv / OGLBuffer::Create / OGLVertexArray::Create:
\* the least unused name of the kind.
FreshName(d, kind) ==
    CHOOSE n \in Names :
        /\ Object(kind, n) \notin d.objects
        /\ \A m \in Names : m < n => Object(kind, m) \in d.objects

CreateObject(d, kind) == [d EXCEPT !.objects = @ \cup {Object(kind, FreshName(d, kind))}]

\* glDeleteProgram: the current program is only flagged for deletion.
DeleteProgram(d, name) ==
    IF d.program = name
    THEN [d EXCEPT !.flagged = @ \cup {Object("program", name)}]
    ELSE [d EXCEPT !.objects = @ \ {Object("program", name)}]

\* glDeleteBuffers: bindings of the deleted buffer revert to zero.
DeleteBuffer(d, name) ==
    [d EXCEPT !.objects = @ \ {Object("buffer", name)},
              !.uniform_buffer = IF @ = name THEN 0 ELSE @,
              !.shader_storage_buffer = IF @ = name THEN 0 ELSE @]

\* glDeleteVertexArrays: the binding of the deleted array reverts to zero.
DeleteVertexArray(d, name) ==
    [d EXCEPT !.objects = @ \ {Object("vertex_array", name)},
              !.vertex_array = IF @ = name THEN 0 ELSE @]

\* TestProgram: create the program, read its link status, delete it.
TestProgram(d, links) ==
    LET shader == FreshName(d, "program")
    IN [driver |-> DeleteProgram(CreateObject(d, "program"), shader),
        result |-> links]

\* The array TestComponentIndexingBug uploads.
values == <<0, 0, 0, 0, 19096359, 9983106, 8857427, 37192754>>

\* What glGetNamedBufferSubData can hand back: the contents of an
\* invalidated buffer are undefined until the draw writes them, and the
\* draw writes what the driver makes of the indexing.
ReadbackValues == {values[k] : k \in 1 .. Len(values)}

\* The first index of the loop and the index it stops before.
FirstIndex == 4
EndIndex == 8

TestIndex_NoInvalidate(shader, ssbo, index, result) ==
    [calls |-> <<Call("probe", "glBindBufferBase", "GL_SHADER_STORAGE_BUFFER", 0, <<ssbo>>),
                 Call("probe", "glProgramUniform1ui", "", -1, <<shader, index>>),
                 Call("probe", "glDrawArrays", "GL_POINTS", -1, <<0, 1>>),
                 Call("probe", "glGetNamedBufferSubData", "", -1, <<ssbo, result>>)>>,
     mismatch |-> result # values[index + 1]]

\* One iteration of the loop of TestComponentIndexingBug: the calls it
\* makes (result is what the read-back returns) and whether it returns true.
TestIndex(shader, ssbo, index, result) ==
    [calls |-> <<Call("probe", "glInvalidateBufferData", "", -1, <<ssbo>>),
                 Call("probe", "glBindBufferBase", "GL_SHADER_STORAGE_BUFFER", 0, <<ssbo>>),
                 Call("probe", "glProgramUniform1ui", "", -1, <<shader, index>>),
                 Call("probe", "glDrawArrays", "GL_POINTS", -1, <<0, 1>>),
                 Call("probe", "glGetNamedBufferSubData", "", -1, <<ssbo, result>>)>>,
     mismatch |-> result # values[index + 1]]

\* Leaving TestComponentIndexingBug: ssbo, ubo and vao are released in the
\* reverse order of their declaration, then SCOPE_EXIT deletes the program.
ComponentExit(d, locals) ==
    DeleteProgram(
        DeleteVertexArray(
            DeleteBuffer(DeleteBuffer(d, locals.ssbo), locals.ubo),
            locals.vao),
        locals.shader)

NoLocals == [shader |-> 0, vao |-> 0, ubo |-> 0, ssbo |-> 0, index |-> 0]

\* A Device whose constructor has not run yet: no member has been read.
UnconstructedDevice ==
    [pc |-> "start",
     base_bindings |-> [k \in 0 .. 5 |-> BaseBindings(U32(0), U32(0), U32(0), U32(0))],
     has_variable_aoffi |-> FALSE,
     has_component_indexing_bug |-> FALSE,
     has_precise_bug |-> FALSE,
     locals |-> NoLocals]

\* The limits of a driver that reports l for everything.
UniformLimits(l) == [s \in Stages |-> BaseBindings(l, l, l, l)]

\* The test programs: whether each compiles and links.
Probes == {"variable_aoffi", "component_indexing", "precise"}

NoEnv == [limits |-> UniformLimits(U32(0)), links |-> [p \in Probes |-> TRUE]]

\* ---------------------------------------------------------- state machine
VARIABLES
    cur_state,   \* OpenGLState::cur_state, the applied singleton
    state,       \* the desired instance the caller fills in and applies
    calls,       \* the driver calls the last operation issued, in order
    old_state,   \* cur_state when the last operation started
    prev,        \* the desired instance when the last member call started
    op,          \* the last operation
    edits,       \* assignments the caller has made to the desired instance
    applies,     \* Apply() calls in a row since the instance last changed
    unbind,      \* per texture unit: the handle UnbindTexture scrubbed from
                 \* it while the singleton held it too, whether an Apply()
                 \* ran since, and whether the last Apply() bound it again
    driver,      \* the GL context
    old_driver,  \* the GL context when the last operation started
    device,      \* the Device under construction and where its constructor is
    env          \* what the driver answers to the constructor's queries

vars == <<cur_state, state, calls, old_state, prev, op, edits, applies, unbind,
          driver, old_driver, device, env>>

NoUnbind == [handle |-> 0, applied |-> FALSE, reused |-> FALSE]

\* After construction: singleton and desired instance default constructed.
Init ==
    /\ cur_state = DefaultState
    /\ state = DefaultState
    /\ calls = <<>>
    /\ old_state = DefaultState
    /\ prev = DefaultState
    /\ op = "init"
    /\ edits = 0
    /\ applies = 0
    /\ unbind = [i \in TextureUnits |-> NoUnbind]
    /\ driver = DefaultDriver
    /\ old_driver = DefaultDriver
    /\ device = UnconstructedDevice
    /\ env = NoEnv

\* A scrub that a later Apply() has answered is history.
Settled(u) == [i \in TextureUnits |-> IF u[i].reused THEN NoUnbind ELSE u[i]]

\* The caller assigns one member of the desired instance.
SetField ==
    \E p \in Fields : \E v \in Dom(p) :
        /\ edits < MaxEdits
        /\ v # Get(state, p)
        /\ state' = Set(state, p, v)
        /\ prev' = state'
        /\ edits' = edits + 1
        /\ calls' = <<>>
        /\ old_state' = cur_state
        /\ op' = "SetField"
        /\ applies' = 0
        /\ unbind' = Settled(unbind)
        /\ old_driver' = driver
        /\ UNCHANGED <<cur_state, driver, device, env>>

\* state.Apply()
Apply ==
    /\ applies < MaxApplies
    /\ LET r == ApplyOp(cur_state, state)
       IN /\ cur_state' = r.st
          /\ calls' = r.calls
          /\ driver' = DriverAfter(driver, r.calls, Len(r.calls))
    /\ old_driver' = driver
    /\ old_state' = cur_state
    /\ prev' = state
    /\ op' = "Apply"
    /\ applies' = applies + 1
    /\ unbind' = [i \in TextureUnits |->
                    LET u == Settled(unbind)[i]
                    IN IF u.handle = 0 THEN u
                       ELSE IF state.textures[i] = u.handle
                            THEN [u EXCEPT !.reused = TRUE]
                            ELSE [u EXCEPT !.applied = TRUE]]
    /\ UNCHANGED <<state, edits, device, env>>

\* What every member call other than Apply() leaves behind: no driver call,
\* the singleton untouched.  A call that finds nothing to change leaves
\* every variable as it was.
MemberCall(name, after) ==
    /\ after # state
    /\ state' = after
    /\ prev' = state
    /\ calls' = <<>>
    /\ old_state' = cur_state
    /\ op' = name
    /\ applies' = 0
    /\ old_driver' = driver
    /\ UNCHANGED <<cur_state, edits, driver, device, env>>

\* state.EmulateViewportWithScissor()
EmulateViewportWithScissor ==
    \E v \in EmulatedViewports(state.viewports[0]) :
        /\ MemberCall("EmulateViewportWithScissor", [state EXCEPT !.viewports[0] = v])
        /\ unbind' = Settled(unbind)

\* state.UnbindTexture(handle)
UnbindTexture ==
    \E handle \in Values :
        /\ MemberCall("UnbindTexture", UnbindTextureOp(state, handle))
        /\ unbind' = [i \in TextureUnits |->
                        IF handle # 0 /\ state.textures[i] = handle
                        THEN [handle |-> IF cur_state.textures[i] = handle THEN handle ELSE 0,
                              applied |-> FALSE, reused |-> FALSE]
                        ELSE Settled(unbind)[i]]

ResetSampler ==
    \E handle \in Values :
        /\ MemberCall("ResetSampler", ResetSamplerOp(state, handle))
        /\ unbind' = Settled(unbind)

ResetProgram ==
    \E handle \in Values :
        /\ MemberCall("ResetProgram", ResetProgramOp(state, handle))
        /\ unbind' = Settled(unbind)

ResetPipeline ==
    \E handle \in Values :
        /\ MemberCall("ResetPipeline", ResetPipelineOp(state, handle))
        /\ unbind' = Settled(unbind)

ResetFramebuffer ==
    \E handle \in Values :
        /\ MemberCall("ResetFramebuffer", ResetFramebufferOp(state, handle))
        /\ unbind' = Settled(unbind)

ResetRenderbuffer ==
    \E handle \in Values :
        /\ MemberCall("ResetRenderbuffer", ResetRenderbufferOp(state, handle))
        /\ unbind' = Settled(unbind)

Next ==
    \/ SetField
    \/ Apply
    \/ EmulateViewportWithScissor
    \/ UnbindTexture
    \/ ResetSampler
    \/ ResetProgram
    \/ ResetPipeline
    \/ ResetFramebuffer
    \/ ResetRenderbuffer

Spec == Init /\ [][Next]_vars

\* The singleton and a desired instance that differ from the defaults in
\* their image units only: what a run of assignments and Apply() calls on
\* the image units leaves behind.
InitImages ==
    /\ cur_state \in {[DefaultState EXCEPT !.images = im] : im \in [ImageUnits -> Values]}
    /\ state \in {[DefaultState EXCEPT !.images = im] : im \in [ImageUnits -> Values]}
    /\ calls = <<>>
    /\ old_state = cur_state
    /\ prev = state
    /\ op = "init"
    /\ edits = 0
    /\ applies = 0
    /\ unbind = [i \in TextureUnits |-> NoUnbind]
    /\ driver = [DefaultDriver EXCEPT !.images = cur_state.images]
    /\ old_driver = driver
    /\ device = UnconstructedDevice
    /\ env = NoEnv

SpecImages == InitImages /\ [][Apply]_vars

\* A desired instance whose viewport slot 0 holds any rectangle and any
\* scissor, as the caller has filled it in.
InitScissor ==
    /\ cur_state = DefaultState
    /\ state \in {[DefaultState EXCEPT !.viewports[0] =
                     [DefaultViewport EXCEPT
                        !.x = r[1], !.y = r[2], !.width = r[3], !.height = r[4],
                        !.scissor = [enabled |-> en, x |-> sc[1], y |-> sc[2],
                                     width |-> sc[3], height |-> sc[4]]]] :
                    r \in Coords \X Coords \X Coords \X Coords,
                    sc \in Coords \X Coords \X Coords \X Coords,
                    en \in BOOLEAN}
    /\ calls = <<>>
    /\ old_state = cur_state
    /\ prev = state
    /\ op = "init"
    /\ edits = 0
    /\ applies = 0
    /\ unbind = [i \in TextureUnits |-> NoUnbind]
    /\ driver = DefaultDriver
    /\ old_driver = DefaultDriver
    /\ device = UnconstructedDevice
    /\ env = NoEnv

SpecScissor == InitScissor /\ [][EmulateViewportWithScissor]_vars

\* ------------------------------------------------- constructing a Device
\* What no step of the constructor touches.
DeviceFrame == UNCHANGED <<cur_state, state, old_state, prev, edits, applies, unbind,
                           old_driver, env>>

\* Device::Device(), lines 79-100: the binding bases.  (The scalar limits,
\* extension flags and vendor flags are copies of driver answers.)
DeviceBaseBindings ==
    /\ device.pc = "start"
    /\ device' = [device EXCEPT !.base_bindings = ConstructedBindings(env.limits),
                                !.pc = "variable_aoffi"]
    /\ calls' = <<>>
    /\ op' = "Device"
    /\ UNCHANGED driver
    /\ DeviceFrame

\* has_variable_aoffi = TestVariableAoffi()
TestVariableAoffi ==
    /\ device.pc = "variable_aoffi"
    /\ LET t == TestProgram(driver, env.links["variable_aoffi"])
       IN /\ device' = [device EXCEPT !.has_variable_aoffi = t.result,
                                      !.pc = "component_indexing"]
          /\ driver' = t.driver
    /\ calls' = <<>>
    /\ op' = "TestVariableAoffi"
    /\ DeviceFrame

\* TestComponentIndexingBug(), lines 159-175: the program is made current
\* (glUseProgram of a program that did not link fails and leaves the
\* current program), the vertex array and the uniform buffer are created
\* and bound, the storage buffer is created.
TestComponentIndexingBug ==
    /\ device.pc = "component_indexing"
    /\ LET shader == FreshName(driver, "program")
           created == CreateObject(driver, "program")
           used == IF env.links["component_indexing"]
                   THEN [created EXCEPT !.program = shader] ELSE created
           vao == FreshName(used, "vertex_array")
           with_vao == [CreateObject(used, "vertex_array") EXCEPT !.vertex_array = vao]
           ubo == FreshName(with_vao, "buffer")
           with_ubo == [CreateObject(with_vao, "buffer") EXCEPT !.uniform_buffer = ubo]
           ssbo == FreshName(with_ubo, "buffer")
       IN /\ driver' = CreateObject(with_ubo, "buffer")
          /\ device' = [device EXCEPT
                          !.locals = [shader |-> shader, vao |-> vao, ubo |-> ubo,
                                      ssbo |-> ssbo, index |-> FirstIndex],
                          !.pc = "component_loop"]
    /\ calls' = <<>>
    /\ op' = "TestComponentIndexingBug"
    /\ DeviceFrame

\* One iteration of the loop, lines 177-189, and the return that follows
\* a mismatch or the last index.
TestComponentIndexingBugLoop ==
    /\ device.pc = "component_loop"
    /\ \E result \in ReadbackValues :
         LET l == device.locals
             t == TestIndex(l.shader, l.ssbo, l.index, result)
             bound == [driver EXCEPT !.shader_storage_buffer = l.ssbo]
         IN /\ calls' = calls \o t.calls
            /\ IF t.mismatch \/ l.index + 1 >= EndIndex
               THEN /\ device' = [device EXCEPT !.has_component_indexing_bug = t.mismatch,
                                                !.locals = NoLocals,
                                                !.pc = "precise"]
                    /\ driver' = ComponentExit(bound, l)
               ELSE /\ device' = [device EXCEPT !.locals.index = l.index + 1]
                    /\ driver' = bound
    /\ op' = "TestComponentIndexingBug"
    /\ DeviceFrame

\* has_precise_bug = TestPreciseBug(); the constructor returns.
TestPreciseBug ==
    /\ device.pc = "precise"
    /\ LET t == TestProgram(driver, env.links["precise"])
       IN /\ device' = [device EXCEPT !.has_precise_bug = ~t.result, !.pc = "done"]
          /\ driver' = t.driver
    /\ calls' = <<>>
    /\ op' = "TestPreciseBug"
    /\ DeviceFrame

NextDevice ==
    \/ DeviceBaseBindings
    \/ TestVariableAoffi
    \/ TestComponentIndexingBug
    \/ TestComponentIndexingBugLoop
    \/ TestPreciseBug

\* Before Device(): a context with anything bound, a driver that reports
\* any of the limits for everything, and test programs that link or not.
InitDevice ==
    /\ cur_state = DefaultState
    /\ state = DefaultState
    /\ calls = <<>>
    /\ old_state = DefaultState
    /\ prev = DefaultState
    /\ op = "init"
    /\ edits = 0
    /\ applies = 0
    /\ unbind = [i \in TextureUnits |-> NoUnbind]
    /\ driver \in {[DefaultDriver EXCEPT !.program = b[1], !.vertex_array = b[2],
                                         !.uniform_buffer = b[3],
                                         !.shader_storage_buffer = b[4]] :
                     b \in Values \X Values \X Values \X Values}
    /\ old_driver = driver
    /\ device = UnconstructedDevice
    /\ env \in {[limits |-> UniformLimits(l), links |-> k] :
                  l \in LimitValues, k \in [Probes -> BOOLEAN]}

SpecDevice == InitDevice /\ [][NextDevice]_vars

\* Before Device(), for the binding bases: any uniform-block limit per
\* stage, and any storage-block, texture-unit and image limit, each the
\* same for the four stages.
InitBindings ==
    /\ cur_state = DefaultState
    /\ state = DefaultState
    /\ calls = <<>>
    /\ old_state = DefaultState
    /\ prev = DefaultState
    /\ op = "init"
    /\ edits = 0
    /\ applies = 0
    /\ unbind = [i \in TextureUnits |-> NoUnbind]
    /\ driver = DefaultDriver
    /\ old_driver = DefaultDriver
    /\ device = UnconstructedDevice
    /\ env \in {[limits |-> [s \in Stages |-> BaseBindings(u[s], o[1], o[2], o[3])],
                 links |-> [p \in Probes |-> TRUE]] :
                  u \in [Stages -> LimitValues],
                  o \in LimitValues \X LimitValues \X LimitValues}

SpecBindings == InitBindings /\ [][DeviceBaseBindings]_vars

\* ================================================================ claims
\* After an Apply(): old_state is the singleton the call started from,
\* state the desired instance it applied, calls what it issued.
AfterApply == op = "Apply"

\* The fields of desired and applied that differed when the last call started.
Differing == DiffFields(old_state, state)

\* The fields whose value call c hands to the driver.
CallFields(c) ==
    CASE c.name = "glBindFramebuffer" ->
           {Path("member", "draw", 0, "",
                 IF c.cap = "GL_READ_FRAMEBUFFER" THEN "read_framebuffer"
                 ELSE "draw_framebuffer")}
      [] c.name = "glUseProgram" -> {Path("member", "draw", 0, "", "shader_program")}
      [] c.name = "glBindProgramPipeline" -> {Path("member", "draw", 0, "", "program_pipeline")}
      [] c.name = "glClampColor" -> {Path("member", "fragment_color_clamp", 0, "", "enabled")}
      [] c.name \in {"glEnable", "glDisable"} ->
           (CASE c.cap = "GL_CLIP_DISTANCE0" -> {Path("elem", "clip_distance", c.args[1], "", "")}
             [] c.cap = "GL_SAMPLE_ALPHA_TO_COVERAGE" ->
                  {Path("member", "multisample_control", 0, "", "alpha_to_coverage")}
             [] c.cap = "GL_SAMPLE_ALPHA_TO_ONE" ->
                  {Path("member", "multisample_control", 0, "", "alpha_to_one")}
             [] c.cap = "GL_RASTERIZER_DISCARD" -> {Path("top", "rasterizer_discard", 0, "", "")}
             [] c.cap = "GL_STENCIL_TEST" -> {Path("member", "stencil", 0, "", "test_enabled")}
             [] c.cap = "GL_BLEND" -> {Path("elem_member", "blend", 0, "", "enabled")})
      [] c.name \in {"glEnablei", "glDisablei"} ->
           (CASE c.cap = "GL_SCISSOR_TEST" ->
                  {Path("elem_sub", "viewports", c.index, "scissor", "enabled")}
             [] c.cap = "GL_BLEND" -> {Path("elem_member", "blend", c.index, "", "enabled")})
      [] c.name = "glColorMaski" ->
           {Path("elem_member", "color_mask", c.index, "", f) : f \in ColorMaskFields}
      [] c.name = "glViewportIndexedf" ->
           {Path("elem_member", "viewports", c.index, "", f) : f \in ViewportRectFields}
      [] c.name = "glDepthRangeIndexed" ->
           {Path("elem_member", "viewports", c.index, "", f) :
              f \in {"depth_range_near", "depth_range_far"}}
      [] c.name = "glScissorIndexed" ->
           {Path("elem_sub", "viewports", c.index, "scissor", f) : f \in ViewportRectFields}
      [] c.name = "glStencilFuncSeparate" ->
           {Path("member_sub", "stencil", 0, IF c.cap = "GL_FRONT" THEN "front" ELSE "back", f) :
              f \in {"test_func", "test_ref", "test_mask"}}
      [] c.name = "glStencilOpSeparate" ->
           {Path("member_sub", "stencil", 0, IF c.cap = "GL_FRONT" THEN "front" ELSE "back", f) :
              f \in {"action_stencil_fail", "action_depth_fail", "action_depth_pass"}}
      [] c.name = "glStencilMaskSeparate" ->
           {Path("member_sub", "stencil", 0, IF c.cap = "GL_FRONT" THEN "front" ELSE "back",
                 "write_mask")}
      [] c.name \in {"glBlendFuncSeparate", "glBlendFuncSeparatei"} ->
           {Path("elem_member", "blend", IF c.index = -1 THEN 0 ELSE c.index, "", f) :
              f \in {"src_rgb_func", "dst_rgb_func", "src_a_func", "dst_a_func"}}
      [] c.name \in {"glBlendEquationSeparate", "glBlendEquationSeparatei"} ->
           {Path("elem_member", "blend", IF c.index = -1 THEN 0 ELSE c.index, "", f) :
              f \in {"rgb_equation", "a_equation"}}
      [] c.name = "glBindTextureUnit" -> {Path("elem", "textures", c.index, "", "")}
      [] c.name = "glBindSampler" -> {Path("elem", "samplers", c.index, "", "")}
      [] c.name = "glBindImageTextures" ->
           {Path("elem", "images", i, "", "") : i \in c.index .. (c.index + Len(c.args) - 1)}
      [] c.name = "glClipControl" ->
           {Path("member", "clip_control", 0, "", f) : f \in {"origin", "depth_mode"}}
      [] c.name = "glBindRenderbuffer" -> {Path("top", "renderbuffer", 0, "", "")}

\* C1 (as claimed): after Apply() returns, every field of the applied
\* singleton equals the corresponding field of the desired state, the
\* blend records of targets 1..N-1 with independent blending off included.
C1_Convergence == AfterApply => cur_state = state

\* C2: an Apply() that directly follows an Apply() of the same desired
\* state issues no driver call.
C2_Idempotence == (AfterApply /\ applies >= 2) => calls = <<>>

\* C2's case: a second Apply() in a row of a state with independent
\* blending on and a texture unit that went back to zero after the
\* singleton had held a handle there.
C2_Witness ==
    /\ AfterApply
    /\ applies = 2
    /\ state.independant_blend.enabled
    /\ \E i \in TextureUnits :
         unbind[i].handle # 0 /\ unbind[i].applied /\ state.textures[i] = 0

\* C3 (as claimed): a desired state that differs from the singleton in
\* exactly one field makes Apply() issue exactly one call, of that field's
\* category.
C3_Minimality ==
    (AfterApply /\ Cardinality(Differing) = 1) =>
        /\ Len(calls) = 1
        /\ \A p \in Differing : calls[1].cat = Category(p)

\* The number of calls Apply() issues for the single differing field p.
C3_Expected(p) ==
    IF p.g = "textures" /\ Get(state, p) = 0 THEN 0
    ELSE IF p.g = "independant_blend"
         THEN IF state.independant_blend.enabled THEN NumRenderTargets ELSE 0
    ELSE IF p.g = "blend" /\ p.i # 0 /\ ~state.independant_blend.enabled THEN 0
    ELSE 1

\* C3 (amended): with exactly one differing field Apply() issues calls of
\* that field's category only, and exactly one of them, except that a
\* texture unit changed to zero issues none, the independent-blend flag
\* changed to on issues one indexed blend enable/disable per render target
\* and changed to off issues none, and a blend field of a target other
\* than 0 issues none while independent blending is off.
C3_MinimalityAmended ==
    (AfterApply /\ Cardinality(Differing) = 1) =>
        \A p \in Differing :
            /\ \A k \in 1 .. Len(calls) : calls[k].cat = Category(p)
            /\ Len(calls) = C3_Expected(p)
            /\ p.g = "independant_blend" =>
                 \A k \in 1 .. Len(calls) :
                    /\ calls[k].name \in {"glEnablei", "glDisablei"}
                    /\ calls[k].cap = "GL_BLEND"
                    /\ calls[k].index = k - 1
            /\ (p.g # "independant_blend" /\ Len(calls) = 1) => p \in CallFields(calls[1])

\* C3's case: one field differed and one call was issued.
C3_Witness ==
    /\ AfterApply
    /\ Cardinality(Differing) = 1
    /\ Len(calls) = 1

\* C4 (as claimed): every call of an Apply() carries a field group whose
\* desired value differed from the singleton's when the call started.
C4_NoRedundantCalls ==
    AfterApply =>
        \A k \in 1 .. Len(calls) : CallFields(calls[k]) \cap Differing # {}

\* The forced calls: the indexed blend enable/disable of every target when
\* the desired state has independent blending on and the singleton off.
C4_Forced(c) ==
    /\ c.name \in {"glEnablei", "glDisablei"}
    /\ c.cap = "GL_BLEND"
    /\ state.independant_blend.enabled
    /\ ~old_state.independant_blend.enabled

\* C4 (amended): every call carries a group that differed, except the
\* forced indexed blend enable/disable calls; the batched image bind is
\* one group, the units from the first to the last differing one.
C4_NoRedundantCallsAmended ==
    AfterApply =>
        \A k \in 1 .. Len(calls) :
            \/ CallFields(calls[k]) \cap Differing # {}
            \/ C4_Forced(calls[k])

\* C4's case: an Apply() that issued calls while other groups matched,
\* among them a forced blend enable of a target whose enable matched.
C4_Witness ==
    /\ AfterApply
    /\ \E k \in 1 .. Len(calls) :
         C4_Forced(calls[k]) /\ CallFields(calls[k]) \cap Differing = {}
    /\ \E k \in 1 .. Len(calls) : ~C4_Forced(calls[k])

\* Whether the last operation bound handle h to texture unit i.
BoundTexture(i, h) ==
    \E k \in 1 .. Len(calls) :
        /\ calls[k].name = "glBindTextureUnit"
        /\ calls[k].index = i
        /\ calls[k].args = <<h>>

C6_BlendModeTransition ==
    (AfterApply /\ state.independant_blend.enabled /\ ~old_state.independant_blend.enabled) =>
        /\ \E k \in 1 .. Len(calls) :
             /\ calls[k].name \in {"glEnablei", "glDisablei"}
             /\ calls[k].cap = "GL_BLEND"
             /\ calls[k].index = 0
        /\ \E k \in 1 .. Len(calls) :
             /\ calls[k].name = "glBlendFuncSeparatei"
             /\ calls[k].index = 0
        /\ \E k \in 1 .. Len(calls) :
             /\ calls[k].name = "glBlendEquationSeparatei"
             /\ calls[k].index = 0

\* The image bind calls of the last operation.
ImageCalls == SelectSeq(calls, LAMBDA c : c.cat = "images")

\* The image units that differed when the last call started.
DifferingImages == {i \in ImageUnits : old_state.images[i] # state.images[i]}

\* C7: Apply() issues no image bind if no image unit differs; otherwise
\* one glBindImageTextures whose first index is the lowest differing unit,
\* whose count reaches the highest differing unit, and whose handles are
\* the desired array's over that whole range.
C7_RangeBind ==
    AfterApply =>
        IF DifferingImages = {}
        THEN ImageCalls = <<>>
        ELSE LET lo == CHOOSE i \in DifferingImages : \A j \in DifferingImages : i <= j
                 hi == CHOOSE i \in DifferingImages : \A j \in DifferingImages : j <= i
             IN /\ Len(ImageCalls) = 1
                /\ ImageCalls[1].name = "glBindImageTextures"
                /\ ImageCalls[1].index = lo
                /\ Len(ImageCalls[1].args) = (hi - lo) + 1
                /\ \A i \in lo .. hi : ImageCalls[1].args[(i - lo) + 1] = state.images[i]

\* C7's case: a batched bind that covers a unit which did not differ and
\* holds a handle.
C7_Witness ==
    /\ AfterApply
    /\ Len(ImageCalls) = 1
    /\ \E i \in ImageUnits :
         /\ i \notin DifferingImages
         /\ state.images[i] # 0
         /\ \E a \in DifferingImages : a < i
         /\ \E b \in DifferingImages : i < b

\* The place of a category in the reference order of Apply().
C8_Rank(cat) ==
    CASE cat = "framebuffer" -> 1
      [] cat = "program" -> 2
      [] cat = "pipeline" -> 3
      [] cat = "clip_distances" -> 4
      [] cat = "color_clamp" -> 5
      [] cat = "multisample" -> 6
      [] cat = "rasterizer_discard" -> 7
      [] cat = "color_mask" -> 8
      [] cat = "viewport" -> 9
      [] cat = "stencil" -> 10
      [] cat = "blending" -> 11
      [] cat = "textures" -> 12
      [] cat = "samplers" -> 13
      [] cat = "images" -> 14
      [] cat = "clip_control" -> 15
      [] cat = "renderbuffer" -> 16

\* C8: the calls of one Apply() come grouped by category in the reference
\* order: no call of an earlier category follows one of a later category.
C8_ApplyOrdering ==
    AfterApply =>
        \A j \in 1 .. Len(calls) : \A k \in 1 .. Len(calls) :
            j < k => C8_Rank(calls[j].cat) <= C8_Rank(calls[k].cat)

\* C8's case: an Apply() that issued calls of two categories.
C8_Witness ==
    /\ AfterApply
    /\ \E j \in 1 .. Len(calls) : \E k \in 1 .. Len(calls) :
         calls[j].cat # calls[k].cat

Min(a, b) == IF a < b THEN a ELSE b

\* After EmulateViewportWithScissor(): prev holds slot 0 as the call found it.
AfterEmulate == op = "EmulateViewportWithScissor"

\* A rectangle with its origin at or above zero and a positive extent.
Proper(r) == r.x >= 0 /\ r.y >= 0 /\ r.width > 0 /\ r.height > 0

\* C9 (as claimed, on proper rectangles, where no clamping arises): the
\* scissor is enabled afterwards; it is the viewport rectangle if the
\* scissor was disabled, else the bounding rectangle of the viewport
\* rectangle and the previous scissor rectangle: left the smaller of the
\* two left edges, right the larger of the two right edges, and likewise
\* bottom and top.
C9_EmulateResult ==
    (AfterEmulate /\ Proper(prev.viewports[0]) /\ Proper(prev.viewports[0].scissor)) =>
        LET v == prev.viewports[0]
            s == state.viewports[0].scissor
        IN /\ s.enabled
           /\ IF ~v.scissor.enabled
              THEN /\ s.x = v.x /\ s.y = v.y
                   /\ s.width = v.width /\ s.height = v.height
              ELSE /\ s.x = Min(v.x, v.scissor.x)
                   /\ s.x + s.width = Max(v.x + v.width, v.scissor.x + v.scissor.width)
                   /\ s.y = Min(v.y, v.scissor.y)
                   /\ s.y + s.height = Max(v.y + v.height, v.scissor.y + v.scissor.height)

\* C10 (as claimed): after the call the scissor's x, y, width and height
\* are all >= 0, whether the scissor was enabled before or not.
C10_EmulateClamped ==
    AfterEmulate =>
        LET s == state.viewports[0].scissor
        IN s.x >= 0 /\ s.y >= 0 /\ s.width >= 0 /\ s.height >= 0

\* ------------------------------------------------------ device claims
\* After Device() has returned: old_driver is the context it started from.
DeviceConstructed == device.pc = "done"

\* C11 (as claimed): when Device() has returned, the current program, the
\* bound vertex array and the uniform-buffer and storage-buffer bindings
\* at index 0 are what they were before construction, and no program,
\* buffer or vertex array the probes created is left alive.
C11_ProbeLeavesContext ==
    DeviceConstructed =>
        /\ driver.program = old_driver.program
        /\ driver.vertex_array = old_driver.vertex_array
        /\ driver.uniform_buffer = old_driver.uniform_buffer
        /\ driver.shader_storage_buffer = old_driver.shader_storage_buffer
        /\ driver.objects = {}

\* The capacity the constructor counts for the stage between entries k - 1
\* and k: the reported limit, less the reserved block for uniform buffers.
C12_Capacity(k, c) ==
    IF c = "uniform_buffer"
    THEN U32Minus(env.limits[k][c], U32(ReservedUniformBlocks))
    ELSE env.limits[k][c]

\* C12 (as claimed): whatever u32 limits the driver reports, in each of
\* the four categories the bases base_bindings[0..4] do not decrease, and
\* each differs from the one before it by the capacity counted for the
\* stage between them (in u32 arithmetic), so the slot ranges of different
\* stages are disjoint.
C12_BindingBasesDisjoint ==
    device.pc # "start" =>
        \A k \in Stages : \A c \in BindingCategories :
            /\ U32LessEq(device.base_bindings[k - 1][c], device.base_bindings[k][c])
            /\ U32Minus(device.base_bindings[k][c], device.base_bindings[k - 1][c])
                 = C12_Capacity(k, c)

\* C13 (as claimed): base_bindings[0] is {1, 0, 0, 0}; the uniform-buffer
\* base advances by the vertex limit less one across the vertex stage and
\* by the full reported limit across each of the three later stages.
C13_ReservedUniformSlot ==
    device.pc # "start" =>
        /\ device.base_bindings[0] = BaseBindings(U32(1), U32(0), U32(0), U32(0))
        /\ U32Minus(device.base_bindings[1].uniform_buffer,
                    device.base_bindings[0].uniform_buffer)
             = U32Minus(env.limits[1].uniform_buffer, U32(1))
        /\ \A k \in Stages \ {1} :
             U32Minus(device.base_bindings[k].uniform_buffer,
                      device.base_bindings[k - 1].uniform_buffer)
               = env.limits[k].uniform_buffer

\* C13 (amended): base_bindings[0] is {1, 0, 0, 0}, and the reserved block
\* is subtracted from the uniform-buffer limit of every chained stage: the
\* uniform-buffer base advances by the stage's reported limit less one
\* (in u32 arithmetic) across each of the vertex, tessellation-control,
\* tessellation-evaluation and geometry stages.
C13_ReservedUniformSlotAmended ==
    device.pc # "start" =>
        /\ device.base_bindings[0] = BaseBindings(U32(1), U32(0), U32(0), U32(0))
        /\ \A k \in Stages :
             U32Minus(device.base_bindings[k].uniform_buffer,
                      device.base_bindings[k - 1].uniform_buffer)
               = U32Minus(env.limits[k].uniform_buffer, U32(1))

\* C13's case: every stage reports one uniform block, and no base moves
\* past the reserved slot.
C13_Witness ==
    /\ device.pc # "start"
    /\ \A k \in Stages : env.limits[k].uniform_buffer = U32(1)
    /\ \A k \in Stages : device.base_bindings[k].uniform_buffer = U32(1)

\* C14 (as claimed): when Device() has returned, a test program that did
\* not link has left its flag conservative (no variable aoffi, precise
\* bug, component indexing bug), and the variable-offset and precise
\* programs that linked have left has_variable_aoffi true and
\* has_precise_bug false.
C14_ProbeFailure ==
    DeviceConstructed =>
        /\ device.has_variable_aoffi = env.links["variable_aoffi"]
        /\ device.has_precise_bug = ~env.links["precise"]
        /\ ~env.links["component_indexing"] => device.has_component_indexing_bug

\* After TestComponentIndexingBug() has returned; calls are the loop's.
AfterComponentTest == op = "TestComponentIndexingBug" /\ device.pc = "precise"

\* The indices the loop handed to the program and the values read back.
C19_Indices == SelectSeq(calls, LAMBDA c : c.name = "glProgramUniform1ui")
C19_Readbacks == SelectSeq(calls, LAMBDA c : c.name = "glGetNamedBufferSubData")

\* Whether the read-back of the j-th tested index differs from the
\* uploaded array's value at that index.
C19_Mismatch(j) == C19_Readbacks[j].args[2] # values[C19_Indices[j].args[2] + 1]

\* C19: the probe tests the indices 4, 5, 6, 7 in this order, as far as it
\* gets; the storage buffer is invalidated before each draw, after the
\* previous one; the probe returns true exactly if some tested index read
\* back a value other than the uploaded one; no index is tested after a
\* mismatch; and false is returned only after all four indices matched.
C19_ComponentIndexingProbe ==
    AfterComponentTest =>
        LET n == Len(C19_Indices)
        IN /\ n \in 1 .. 4
           /\ Len(C19_Readbacks) = n
           /\ \A j \in 1 .. n : C19_Indices[j].args[2] = 3 + j
           /\ \A k \in 1 .. Len(calls) :
                calls[k].name = "glDrawArrays" =>
                    \E m \in 1 .. (k - 1) :
                        /\ calls[m].name = "glInvalidateBufferData"
                        /\ \A x \in m .. (k - 1) : calls[x].name # "glDrawArrays"
           /\ device.has_component_indexing_bug = (\E j \in 1 .. n : C19_Mismatch(j))
           /\ \A j \in 1 .. (n - 1) : ~C19_Mismatch(j)
           /\ ~device.has_component_indexing_bug => n = 4

\* C19's case: the third index read back the value of the second (a stale
\* read) and the probe returned true without testing the fourth.
C19_Witness ==
    /\ AfterComponentTest
    /\ Len(C19_Indices) = 3
    /\ C19_Readbacks[3].args[2] = values[C19_Indices[2].args[2] + 1]
    /\ device.has_component_indexing_bug

\* ------------------------------------------------- state-cache claims
\* The calls of the last operation that bind to unit i through entry
\* point name.
BindCalls(name, i) == SelectSeq(calls, LAMBDA c : c.name = name /\ c.index = i)

\* C15: Apply() issues exactly one glBindSampler for every sampler unit
\* whose desired handle differs from the singleton's, zero included, and
\* exactly one glBindTextureUnit for every texture unit whose desired
\* handle differs and is not zero; for a texture unit whose desired handle
\* differs and is zero it issues no bind, sets the singleton's entry to
\* zero and leaves the driver's binding of the unit as it was.
C15_PerSlotBinds ==
    AfterApply =>
        /\ \A i \in SamplerUnits :
             old_state.samplers[i] # state.samplers[i] =>
                 /\ Len(BindCalls("glBindSampler", i)) = 1
                 /\ BindCalls("glBindSampler", i)[1].args = <<state.samplers[i]>>
        /\ \A i \in TextureUnits :
             old_state.textures[i] # state.textures[i] =>
                 IF state.textures[i] # 0
                 THEN /\ Len(BindCalls("glBindTextureUnit", i)) = 1
                      /\ BindCalls("glBindTextureUnit", i)[1].args = <<state.textures[i]>>
                 ELSE /\ BindCalls("glBindTextureUnit", i) = <<>>
                      /\ cur_state.textures[i] = 0
                      /\ driver.textures[i] = old_driver.textures[i]

\* C15's case: a texture unit went to zero while the driver had a texture
\* bound there, which stays bound.
C15_Witness ==
    /\ AfterApply
    /\ \E i \in TextureUnits :
         /\ old_state.textures[i] # 0
         /\ state.textures[i] = 0
         /\ cur_state.textures[i] = 0
         /\ driver.textures[i] # 0

\* The invalidation helpers and the fields each one scrubs.
InvalidationOps ==
    {"UnbindTexture", "ResetSampler", "ResetProgram", "ResetPipeline",
     "ResetFramebuffer", "ResetRenderbuffer"}

C16_OwnFields(name) ==
    CASE name = "UnbindTexture" -> {Path("elem", "textures", i, "", "") : i \in TextureUnits}
      [] name = "ResetSampler" -> {Path("elem", "samplers", i, "", "") : i \in SamplerUnits}
      [] name = "ResetProgram" -> {Path("member", "draw", 0, "", "shader_program")}
      [] name = "ResetPipeline" -> {Path("member", "draw", 0, "", "program_pipeline")}
      [] name = "ResetFramebuffer" ->
           {Path("member", "draw", 0, "", f) : f \in {"read_framebuffer", "draw_framebuffer"}}
      [] name = "ResetRenderbuffer" -> {Path("top", "renderbuffer", 0, "", "")}

\* C16: an invalidation helper called with handle H on desired state S
\* sets to zero every one of its own fields of S that held H, leaves every
\* other field of S as it was, issues no driver call and leaves the
\* singleton and the context alone.
C16_InvalidationFrame ==
    op \in InvalidationOps =>
        /\ \E handle \in Values : \A p \in Fields :
             Get(state, p) = IF p \in C16_OwnFields(op) /\ Get(prev, p) = handle
                             THEN 0 ELSE Get(prev, p)
        /\ calls = <<>>
        /\ cur_state = old_state
        /\ driver = old_driver

\* C16's case: ResetFramebuffer scrubbed the read and the draw framebuffer.
C16_Witness ==
    /\ op = "ResetFramebuffer"
    /\ prev.draw.read_framebuffer # 0
    /\ prev.draw.draw_framebuffer # 0
    /\ state.draw.read_framebuffer = 0
    /\ state.draw.draw_framebuffer = 0

\* C17 (as claimed): after UnbindTexture(H) no texture unit and no image
\* unit of the state holds H.
C17_UnbindCoversImages ==
    op = "UnbindTexture" =>
        \A i \in TextureUnits :
            prev.textures[i] # state.textures[i] =>
                /\ \A j \in TextureUnits : state.textures[j] # prev.textures[i]
                /\ \A k \in ImageUnits : state.images[k] # prev.textures[i]

\* The blending calls of the last operation with entry point in names.
C18_Calls(names) == SelectSeq(calls, LAMBDA c : c.cat = "blending" /\ c.name \in names)

\* C18: an Apply() of a state with independent blending off compares
\* target 0's record with the singleton's target 0 only: a changed enable
\* issues one glEnable/glDisable of GL_BLEND, changed factors one
\* glBlendFuncSeparate, changed equations one glBlendEquationSeparate, each
\* with the desired values; nothing else is issued for blending, no
\* indexed call in particular, whatever the records of the other targets
\* are; and the singleton's independent-blend flag is false afterwards.
C18_GlobalBlending ==
    (AfterApply /\ ~state.independant_blend.enabled) =>
        LET current == old_state.blend[0]
            updated == state.blend[0]
            enables == C18_Calls({"glEnable", "glDisable"})
            funcs == C18_Calls({"glBlendFuncSeparate"})
            equations == C18_Calls({"glBlendEquationSeparate"})
        IN /\ \A k \in 1 .. Len(calls) : calls[k].cat = "blending" => calls[k].index = -1
           /\ Len(C18_Calls({"glEnable", "glDisable", "glBlendFuncSeparate",
                             "glBlendEquationSeparate"}))
                = Len(SelectSeq(calls, LAMBDA c : c.cat = "blending"))
           /\ IF current.enabled # updated.enabled
              THEN /\ Len(enables) = 1
                   /\ enables[1].cap = "GL_BLEND"
                   /\ enables[1].name = IF updated.enabled THEN "glEnable" ELSE "glDisable"
              ELSE enables = <<>>
           /\ IF BlendFuncs(current) # BlendFuncs(updated)
              THEN Len(funcs) = 1 /\ funcs[1].args = BlendFuncs(updated)
              ELSE funcs = <<>>
           /\ IF BlendEquations(current) # BlendEquations(updated)
              THEN Len(equations) = 1 /\ equations[1].args = BlendEquations(updated)
              ELSE equations = <<>>
           /\ ~cur_state.independant_blend.enabled

\* C18's case: target 0's factors changed and were issued globally while
\* target 1's record differed from the singleton's and drew no call.
C18_Witness ==
    /\ AfterApply
    /\ ~state.independant_blend.enabled
    /\ ~old_state.independant_blend.enabled
    /\ state.blend[1] # old_state.blend[1]
    /\ Len(C18_Calls({"glBlendFuncSeparate"})) = 1
    /\ Len(calls) = 1

\* C20 (as claimed): after any Apply(), the driver's blend enable, factors
\* and equations of every render target are the applied state's record of
\* that target if the state has independent blending on, and the state's
\* target-0 record if it has independent blending off.
C20_DriverBlendFollows ==
    AfterApply =>
        \A t \in Targets :
            driver.blend[t] = IF state.independant_blend.enabled
                              THEN state.blend[t] ELSE state.blend[0]

\* C21: the driver and the singleton agreeing at the start and only
\* Apply() calling the driver, after any run of Apply(), Reset*/Unbind*
\* and EmulateViewportWithScissor calls the driver's read and draw
\* framebuffer, program, program pipeline, renderbuffer, every sampler
\* unit and every image unit are the singleton's, and so is the texture
\* binding of every unit whose singleton entry is not zero.
C21_BindingCoherence ==
    /\ driver.read_framebuffer = cur_state.draw.read_framebuffer
    /\ driver.draw_framebuffer = cur_state.draw.draw_framebuffer
    /\ driver.program = cur_state.draw.shader_program
    /\ driver.pipeline = cur_state.draw.program_pipeline
    /\ driver.renderbuffer = cur_state.renderbuffer
    /\ \A i \in SamplerUnits : driver.samplers[i] = cur_state.samplers[i]
    /\ \A i \in ImageUnits : driver.images[i] = cur_state.images[i]
    /\ \A i \in TextureUnits :
         cur_state.textures[i] # 0 => driver.textures[i] = cur_state.textures[i]

\* C21's case: after an invalidation and an Apply() one texture unit of
\* the singleton is zero while the driver still has a texture there, and
\* another binding of the singleton holds a handle.
C21_Witness ==
    /\ AfterApply
    /\ \E i \in TextureUnits : cur_state.textures[i] = 0 /\ driver.textures[i] # 0
    /\ \E p \in Fields :
         /\ Category(p) \in {"framebuffer", "program", "pipeline", "renderbuffer",
                             "samplers", "images", "textures"}
         /\ Get(cur_state, p) # 0

====
